---- MODULE Spec2Model ----
(***************************************************************************)
(* Model of the yt-to-spotify backend: the POST /api/convert handler of    *)
(* the four server variants kept in the repository and the pure string     *)
(* functions they are built from.                                          *)
(*                                                                         *)
(*   "v1"  src/server.js lines 1-334   (cleanYoutubeTitle, tokenSimilarity,*)
(*         searchSpotifyTrack, searchAppleTrack, Promise.allSettled)       *)
(*   "v2"  src/server.js lines 336-610 (cleanTitle, similarity,            *)
(*         searchSpotify, searchApple, Promise.allSettled)                 *)
(*   "p1"  src/unnamed/part_001        (inline cleaning, character-based   *)
(*         similarity, sequential awaits)                                  *)
(*   "p0"  src/unnamed/part_000        (validation and a fixed response,   *)
(*         no outbound call)                                               *)
(*                                                                         *)
(* A JavaScript string is a sequence of one-character strings; a JS number *)
(* that is a score is an IEEE-754 double, computed with the rounding of    *)
(* the program's arithmetic.                                               *)
(***************************************************************************)
EXTENDS Integers, Sequences, FiniteSets, TLC

VARIABLES
  variant,      \* which server variant handles the request
  creds,        \* TRUE iff SPOTIFY_CLIENT_ID and SPOTIFY_CLIENT_SECRET are set
  youtubeUrl,   \* req.body.youtubeUrl
  pc,           \* position of the request handler
  calls,        \* outbound HTTP calls in the order they were issued
  rawTitle,     \* title returned by the metadata endpoint
  cleanedQuery, \* the cleaned search query
  sp,           \* the Spotify branch (promise) of the request
  ap,           \* the Apple branch (promise) of the request
  response,     \* the HTTP response sent, or NoResponse
  fnIn,         \* arguments of a pure function under check
  fnOut         \* its result, or NotYet

vars == <<variant, creds, youtubeUrl, pc, calls, rawTitle, cleanedQuery,
          sp, ap, response, fnIn, fnOut>>

handlerVars == <<creds, youtubeUrl, pc, calls, rawTitle, cleanedQuery,
                 sp, ap, response>>

(***************************************************************************)
(* Strings                                                                 *)
(***************************************************************************)
UpperCase == <<"A","B","C","D","E","F","G","H","I","J","K","L","M",
               "N","O","P","Q","R","S","T","U","V","W","X","Y","Z">>

LowerCase == <<"a","b","c","d","e","f","g","h","i","j","k","l","m",
               "n","o","p","q","r","s","t","u","v","w","x","y","z">>

\* String.prototype.toLowerCase on one character.
LowerChar(c) ==
  IF \E i \in 1..26 : UpperCase[i] = c
  THEN LowerCase[CHOOSE i \in 1..26 : UpperCase[i] = c]
  ELSE c

ToLowerCase(s) == [i \in 1..Len(s) |-> LowerChar(s[i])]

\* The regular expression class \s, on the characters of the model.
IsSpace(c) == c \in {" ", "\t", "\n", "\f", "\r"}

\* TRUE iff pat occurs in s at position i.
MatchAt(s, pat, i) ==
  /\ i >= 1
  /\ i + Len(pat) - 1 <= Len(s)
  /\ \A k \in 1..Len(pat) : s[i + k - 1] = pat[k]

\* String.prototype.indexOf, 1-based, 0 when absent.
IndexOf(s, pat) ==
  IF \E i \in 1..(Len(s) + 1) : MatchAt(s, pat, i)
  THEN CHOOSE i \in 1..(Len(s) + 1) :
         MatchAt(s, pat, i) /\ \A j \in 1..(i - 1) : ~MatchAt(s, pat, j)
  ELSE 0

\* String.prototype.includes.
Includes(s, pat) == IndexOf(s, pat) # 0

\* String.prototype.replace(pat, "") with a string pattern: the first
\* occurrence only.
RemoveFirst(s, pat) ==
  IF IndexOf(s, pat) = 0 THEN s
  ELSE SubSeq(s, 1, IndexOf(s, pat) - 1)
       \o SubSeq(s, IndexOf(s, pat) + Len(pat), Len(s))

\* The position of the first line terminator of s, Len(s) + 1 when it has
\* none: "." in a regular expression matches no line terminator.
LineEnd(s) ==
  IF \E i \in 1..Len(s) : s[i] \in {"\n", "\r"}
  THEN CHOOSE i \in 1..Len(s) :
         s[i] \in {"\n", "\r"} /\ \A k \in 1..(i - 1) : s[k] \notin {"\n", "\r"}
  ELSE Len(s) + 1

\* replace(/\(.*?\)/g, "") and replace(/\[.*?\]/g, ""): every group from an
\* opening character to the first closing character after it on the same
\* line is removed; an opening character with no closing character on its
\* line stays.
RECURSIVE StripGroups(_, _, _)
StripGroups(s, open, close) ==
  IF s = <<>> THEN <<>>
  ELSE IF Head(s) = open /\ \E j \in 2..(LineEnd(s) - 1) : s[j] = close
       THEN LET j == CHOOSE j \in 2..(LineEnd(s) - 1) :
                       s[j] = close /\ \A k \in 2..(j - 1) : s[k] # close
            IN  StripGroups(SubSeq(s, j + 1, Len(s)), open, close)
       ELSE <<Head(s)>> \o StripGroups(Tail(s), open, close)

\* replace(/\s+/g, " ")
RECURSIVE CollapseSpaces(_)
CollapseSpaces(s) ==
  IF s = <<>> THEN <<>>
  ELSE IF IsSpace(Head(s))
       THEN IF Len(s) >= 2 /\ IsSpace(s[2])
            THEN CollapseSpaces(Tail(s))
            ELSE <<" ">> \o CollapseSpaces(Tail(s))
       ELSE <<Head(s)>> \o CollapseSpaces(Tail(s))

RECURSIVE TrimStart(_)
TrimStart(s) ==
  IF s # <<>> /\ IsSpace(Head(s)) THEN TrimStart(Tail(s)) ELSE s

RECURSIVE TrimEnd(_)
TrimEnd(s) ==
  IF s # <<>> /\ IsSpace(s[Len(s)])
  THEN TrimEnd(SubSeq(s, 1, Len(s) - 1)) ELSE s

\* String.prototype.trim
Trim(s) == TrimEnd(TrimStart(s))

\* String.prototype.split(sep) for a non-empty separator: a sequence of
\* strings ("".split(sep) is [""]).
RECURSIVE SplitAt(_, _, _)
SplitAt(s, sep, i) ==
  IF i = 0 THEN <<s>>
  ELSE <<SubSeq(s, 1, i - 1)>>
       \o SplitAt(SubSeq(s, i + Len(sep), Len(s)), sep,
                  IndexOf(SubSeq(s, i + Len(sep), Len(s)), sep))

Split(s, sep) == SplitAt(s, sep, IndexOf(s, sep))

\* String.prototype.split(""): the characters.
Chars(s) == {s[i] : i \in 1..Len(s)}

\* Array.prototype.join(sep)
RECURSIVE Join(_, _)
Join(parts, sep) ==
  IF parts = <<>> THEN <<>>
  ELSE IF Len(parts) = 1 THEN parts[1]
       ELSE parts[1] \o sep \o Join(Tail(parts), sep)

Range(f) == {f[i] : i \in DOMAIN f}

\* All strings over alphabet S of length at most n.
StringsUpTo(S, n) == UNION {[1..k -> S] : k \in 0..n}

\* The JavaScript value undefined where a string is expected.
Undefined == <<"undefined">>

\* !x for a string or undefined.
Falsy(s) == s = Undefined \/ s = <<>>

(***************************************************************************)
(* Title Normalizer                                                        *)
(***************************************************************************)
NoiseV1 ==
  <<<<"o","f","f","i","c","i","a","l"," ","v","i","d","e","o">>,
    <<"o","f","f","i","c","i","a","l"," ","m","u","s","i","c"," ","v","i","d","e","o">>,
    <<"m","u","s","i","c"," ","v","i","d","e","o">>,
    <<"l","y","r","i","c","s">>,
    <<"a","u","d","i","o">>,
    <<"v","i","d","e","o">>,
    <<"h","d">>,
    <<"4","k">>,
    <<"r","e","m","a","s","t","e","r","e","d">>,
    <<"r","e","m","a","s","t","e","r">>>>

NoiseV2 ==
  <<<<"o","f","f","i","c","i","a","l"," ","m","u","s","i","c"," ","v","i","d","e","o">>,
    <<"o","f","f","i","c","i","a","l"," ","v","i","d","e","o">>,
    <<"m","u","s","i","c"," ","v","i","d","e","o">>,
    <<"v","i","d","e","o">>,
    <<"l","y","r","i","c","s">>,
    <<"a","u","d","i","o">>,
    <<"r","e","m","a","s","t","e","r">>,
    <<"h","d">>,
    <<"4","k">>>>

Dash == <<" ","-"," ">>

\* noise.forEach((word) => { lower = lower.replace(word, ""); })
RECURSIVE RemoveNoise(_, _)
RemoveNoise(s, noise) ==
  IF noise = <<>> THEN s
  ELSE RemoveNoise(RemoveFirst(s, Head(noise)), Tail(noise))

\* The "artist - track" step shared by cleanYoutubeTitle and cleanTitle:
\* dashParts[0].trim() + " " + dashParts.slice(1).join(" - ").trim()
JoinParts(lower, dashParts) ==
  IF Len(dashParts) >= 2
  THEN Trim(Trim(dashParts[1]) \o <<" ">>
            \o Trim(Join(SubSeq(dashParts, 2, Len(dashParts)), Dash)))
  ELSE lower

DashJoin(lower) == JoinParts(lower, Split(lower, Dash))

\* The body shared by cleanYoutubeTitle and cleanTitle, which differ in the
\* noise list.
CleanWith(raw, noise) ==
  IF Falsy(raw) THEN <<>>
  ELSE DashJoin(Trim(CollapseSpaces(
         RemoveNoise(ToLowerCase(StripGroups(StripGroups(raw, "(", ")"),
                                             "[", "]")),
                     noise))))

cleanYoutubeTitle(rawT) == CleanWith(rawT, NoiseV1)

cleanTitle(rawT) == CleanWith(rawT, NoiseV2)

\* replace(/\(.*official.*\)/gi, "") and its three siblings of part_001:
\* both .* are greedy and match within one line, so on each line the match
\* runs from the leftmost opening character that has the word and a closing
\* character after it to the last closing character of the line.
MaxOf(S) == CHOOSE j \in S : \A k \in S : k <= j

MinOf(S) == CHOOSE j \in S : \A k \in S : j <= k

\* The opening characters of line s from which the pattern matches up to
\* position last.
GroupStarts(s, open, word, last) ==
  {i \in 1..Len(s) :
     /\ s[i] = open
     /\ \E k \in (i + 1)..(last - Len(word)) : MatchAt(ToLowerCase(s), word, k)}

CutGroup(s, starts, last) ==
  IF starts = {} THEN s
  ELSE SubSeq(s, 1, MinOf(starts) - 1) \o SubSeq(s, last + 1, Len(s))

CutGreedy(s, open, word, closes) ==
  IF closes = {} THEN s
  ELSE CutGroup(s, GroupStarts(s, open, word, MaxOf(closes)), MaxOf(closes))

\* The replacement, line by line; the line terminators stay.
RECURSIVE RemoveGreedyGroup(_, _, _, _)
RemoveGreedyGroup(s, open, close, word) ==
  CutGreedy(SubSeq(s, 1, LineEnd(s) - 1), open, word,
            {j \in 1..(LineEnd(s) - 1) : s[j] = close})
  \o (IF LineEnd(s) > Len(s) THEN <<>>
      ELSE <<s[LineEnd(s)]>>
           \o RemoveGreedyGroup(SubSeq(s, LineEnd(s) + 1, Len(s)),
                                open, close, word))

\* replace(/p1|p2/gi, ""): every occurrence, left to right, of the first
\* alternative of pats that matches, whatever the case.
RECURSIVE RemoveAllCI(_, _)
RemoveAllCI(s, pats) ==
  IF s = <<>> THEN <<>>
  ELSE IF \E i \in 1..Len(pats) : MatchAt(ToLowerCase(s), pats[i], 1)
       THEN RemoveAllCI(
              SubSeq(s,
                     Len(pats[MinOf({i \in 1..Len(pats) :
                                      MatchAt(ToLowerCase(s), pats[i], 1)})]) + 1,
                     Len(s)),
              pats)
       ELSE <<Head(s)>> \o RemoveAllCI(Tail(s), pats)

WordOfficial == <<"o","f","f","i","c","i","a","l">>
WordVideo == <<"v","i","d","e","o">>

\* The cleaning chain in the handler of part_001.
\* The four group patterns, in the order of the chain.
GroupsP1(original) ==
  RemoveGreedyGroup(
    RemoveGreedyGroup(
      RemoveGreedyGroup(
        RemoveGreedyGroup(original, "(", ")", WordOfficial),
        "[", "]", WordOfficial),
      "(", ")", WordVideo),
    "[", "]", WordVideo)

\* /official/gi, /lyrics?/gi, /video/gi, /HD|4K/gi, in the order of the chain.
WordsP1(s) ==
  RemoveAllCI(
    RemoveAllCI(
      RemoveAllCI(
        RemoveAllCI(s, <<WordOfficial>>),
        << <<"l","y","r","i","c","s">>, <<"l","y","r","i","c">> >>),
      <<WordVideo>>),
    << <<"h","d">>, <<"4","k">> >>)

cleanedP1(original) == Trim(CollapseSpaces(WordsP1(GroupsP1(original))))

\* The separators of extractArtistAndSong; the en dash and the em dash are
\* the one-character strings "ENDASH" and "EMDASH".
Seps == << <<" ","-"," ">>, <<" ","ENDASH"," ">>, <<" ","EMDASH"," ">>,
           <<":"," ">> >>

ArtistAndSong(parts) == [artist |-> Trim(parts[1]), song |-> Trim(parts[2])]

ExtractWith(title, hits) ==
  IF hits = {} THEN [artist |-> <<>>, song |-> Trim(title)]
  ELSE ArtistAndSong(Split(title, Seps[MinOf(hits)]))

extractArtistAndSong(title) ==
  ExtractWith(title, {i \in 1..Len(Seps) : Includes(title, Seps[i])})

\* The search query each variant derives from a title.
CleanTitleOf(v, rawT) ==
  CASE v = "v1" -> cleanYoutubeTitle(rawT)
    [] v = "v2" -> cleanTitle(rawT)
    [] OTHER -> cleanedP1(rawT)

(***************************************************************************)
(* Numbers                                                                 *)
(*                                                                         *)
(* A JavaScript number that is a score is a double: [neg, m, e] stands for *)
(* (-1)^neg * m * 2^e, where m has exactly 53 bits, or is 0 with e = 0 for *)
(* the number 0.  m is a sequence of four limbs of LimbBits bits, the      *)
(* least significant first.  Every operation computes the exact result and *)
(* rounds it to the nearest double, ties to even, as the program's "/",    *)
(* "+", "-" and "*" do.  Exponents are unbounded and there is no -0: no    *)
(* score overflows, underflows or is a negative zero.                      *)
(***************************************************************************)
Max(x, y) == IF x >= y THEN x ELSE y

Min(x, y) == IF x <= y THEN x ELSE y

LimbBits == 14

\* Limb i of the natural number s, 0 beyond its length.
Limb(s, i) == IF i \in 1..Len(s) THEN s[i] ELSE 0

\* The natural number whose limbs, before carries, are s, plus c.
RECURSIVE Carry(_, _)
Carry(s, c) ==
  IF s = <<>>
  THEN (IF c = 0 THEN <<>> ELSE <<c % 2^LimbBits>> \o Carry(<<>>, c \div 2^LimbBits))
  ELSE <<(s[1] + c) % 2^LimbBits>> \o Carry(Tail(s), (s[1] + c) \div 2^LimbBits)

\* The number of significant bits of s.
BitLen(s) ==
  IF \A i \in 1..Len(s) : s[i] = 0 THEN 0
  ELSE LET top == CHOOSE i \in 1..Len(s) :
                    s[i] # 0 /\ \A j \in (i + 1)..Len(s) : s[j] = 0
       IN  LimbBits * (top - 1)
           + CHOOSE k \in 1..LimbBits : 2^(k - 1) <= s[top] /\ s[top] < 2^k

\* The quotient and the remainder of (rem * 2^(LimbBits * Len(s)) + s) by d, for
\* rem < d < 2^LimbBits.
RECURSIVE QuoSmall(_, _, _)
QuoSmall(s, d, rem) ==
  IF s = <<>> THEN <<>>
  ELSE Append(QuoSmall(SubSeq(s, 1, Len(s) - 1), d, (rem * 2^LimbBits + s[Len(s)]) % d),
              (rem * 2^LimbBits + s[Len(s)]) \div d)

RECURSIVE ModSmall(_, _, _)
ModSmall(s, d, rem) ==
  IF s = <<>> THEN rem
  ELSE ModSmall(SubSeq(s, 1, Len(s) - 1), d, (rem * 2^LimbBits + s[Len(s)]) % d)

\* s * 2^n and the integer part of s / 2^n.
ShiftLeft(s, n) ==
  [i \in 1..(n \div LimbBits) |-> 0]
  \o Carry([i \in 1..Len(s) |-> s[i] * 2^(n % LimbBits)], 0)

ShiftRight(s, n) ==
  QuoSmall(SubSeq(s, n \div LimbBits + 1, Len(s)), 2^(n % LimbBits), 0)

\* The number 0.
Zero == [neg |-> FALSE, m |-> <<0, 0, 0, 0>>, e |-> 0]

\* The double of mantissa m, which the rounding may have carried to 2^53.
Pack(neg, m, e) ==
  IF BitLen(m) = 54
  THEN [neg |-> neg, m |-> [i \in 1..4 |-> Limb(ShiftRight(m, 1), i)], e |-> e + 1]
  ELSE [neg |-> neg, m |-> [i \in 1..4 |-> Limb(m, i)], e |-> e]

\* The double nearest to q * 2^e for q of 55 bits: a mantissa and two more
\* bits; sticky is TRUE iff a nonzero part below q was cut off.  The
\* mantissa is rounded up above the half, and at the half when it is odd.
Nearest(neg, q, e, sticky) ==
  Pack(neg,
       Carry(ShiftRight(q, 2),
             IF (q[1] \div 2) % 2 = 1
                /\ (q[1] % 2 = 1 \/ sticky \/ (q[1] \div 4) % 2 = 1)
             THEN 1 ELSE 0),
       e + 2)

\* The double nearest to s * 2^e (plus a nonzero part below, if sticky):
\* s is brought to 55 bits, and the bits cut off, if one is set, are sticky.
RoundToDouble(neg, s, e, sticky) ==
  IF BitLen(s) = 0 THEN Zero
  ELSE IF BitLen(s) <= 55
       THEN Nearest(neg, ShiftLeft(s, 55 - BitLen(s)), e - (55 - BitLen(s)), sticky)
       ELSE Nearest(neg, ShiftRight(s, BitLen(s) - 55), e + (BitLen(s) - 55),
                    \/ sticky
                    \/ \E i \in 1..((BitLen(s) - 55) \div LimbBits) : s[i] # 0
                    \/ Limb(s, (BitLen(s) - 55) \div LimbBits + 1)
                         % 2^((BitLen(s) - 55) % LimbBits) # 0)

\* n / d for integers n >= 0 and 0 < d < 2^LimbBits, and the number literal
\* written n/d in decimal (0.1 is FromRatio(1, 10), 100 is FromRatio(100, 1)).
FromRatio(n, d) ==
  RoundToDouble(FALSE, QuoSmall(ShiftLeft(Carry(<<n>>, 0), 70), d, 0), -70,
                ModSmall(ShiftLeft(Carry(<<n>>, 0), 70), d, 0) # 0)

\* The sum of two numbers given by their signs and their magnitudes X, Y
\* in units of 2^e.
AddAligned(xneg, X, yneg, Y, e) ==
  IF xneg = yneg
  THEN RoundToDouble(xneg,
                     Carry([i \in 1..Max(Len(X), Len(Y)) |-> Limb(X, i) + Limb(Y, i)], 0),
                     e, FALSE)
  ELSE IF \E i \in 1..Max(Len(X), Len(Y)) :
            /\ Limb(X, i) < Limb(Y, i)
            /\ \A j \in (i + 1)..Max(Len(X), Len(Y)) : Limb(X, j) = Limb(Y, j)
       THEN RoundToDouble(yneg,
                          Carry([i \in 1..Max(Len(X), Len(Y)) |-> Limb(Y, i) - Limb(X, i)], 0),
                          e, FALSE)
       ELSE RoundToDouble(xneg,
                          Carry([i \in 1..Max(Len(X), Len(Y)) |-> Limb(X, i) - Limb(Y, i)], 0),
                          e, FALSE)

\* x + y
FAdd(x, y) ==
  AddAligned(x.neg, ShiftLeft(x.m, x.e - Min(x.e, y.e)),
             y.neg, ShiftLeft(y.m, y.e - Min(x.e, y.e)), Min(x.e, y.e))

\* x - y
FSub(x, y) == FAdd(x, IF y = Zero THEN Zero ELSE [y EXCEPT !.neg = ~y.neg])

\* x < y: the difference of two doubles rounds to a number of its sign.
FLess(x, y) == FSub(x, y).neg

\* x * y
FMul(x, y) ==
  RoundToDouble(x.neg # y.neg,
                Carry([k \in 1..7 |->
                         x.m[1] * Limb(y.m, k) + x.m[2] * Limb(y.m, k - 1)
                         + x.m[3] * Limb(y.m, k - 2) + x.m[4] * Limb(y.m, k - 3)], 0),
                x.e + y.e, FALSE)

\* The natural number s as an integer, for s < 2^31.
ToInt(s) ==
  Limb(s, 1) + 2^LimbBits * Limb(s, 2) + 2^LimbBits * 2^LimbBits * Limb(s, 3)

\* Math.round(x) for |x| < 2^31: the integer part of x + 1/2, taken exactly.
FRound(x) ==
  IF x = Zero \/ x.e < -54 THEN 0
  ELSE IF x.neg
       THEN 0 - ToInt(ShiftRight(
                  Carry([i \in 1..4 |->
                           x.m[i] + Limb(ShiftLeft(<<1>>, (0 - x.e) - 1), i)], -1),
                  0 - x.e))
       ELSE ToInt(ShiftRight(
              Carry([i \in 1..4 |->
                       x.m[i] + Limb(ShiftLeft(<<1>>, (0 - x.e) - 1), i)], 0),
              0 - x.e))

(***************************************************************************)
(* Similarity Scorer                                                       *)
(***************************************************************************)
MatchPunct == {"(", ")", "[", "]", "-", "_", ",", ".", ":", "/", "!"}

\* normalizeForMatch (first variant), normalize (second variant)
normalizeForMatch(str) ==
  Trim(CollapseSpaces(
    [i \in 1..Len(str) |->
       IF LowerChar(str[i]) \in MatchPunct THEN " " ELSE LowerChar(str[i])]))

\* tokenSimilarity (first variant): empty tokens are filtered out.
\* new Set(normalizeForMatch(a).split(" ").filter(Boolean))
FilteredTokens(a) ==
  {t \in Range(Split(normalizeForMatch(a), <<" ">>)) : t # <<>>}

\* new Set(normalize(a).split(" "))
UnfilteredTokens(a) == Range(Split(normalizeForMatch(a), <<" ">>))

\* intersection / (aTokens.size + bTokens.size - intersection)
Ratio(aTokens, bTokens) ==
  FromRatio(Cardinality(aTokens \cap bTokens),
            Cardinality(aTokens) + Cardinality(bTokens)
              - Cardinality(aTokens \cap bTokens))

TokenSetSimilarity(aTokens, bTokens) ==
  IF aTokens = {} \/ bTokens = {} THEN Zero ELSE Ratio(aTokens, bTokens)

tokenSimilarity(a, b) == TokenSetSimilarity(FilteredTokens(a), FilteredTokens(b))

\* similarity (second variant): the token sets are not filtered.
\* total === 0 ? 0 : match / total
MatchOverTotal(aTokens, bTokens) ==
  IF Cardinality(aTokens) + Cardinality(bTokens)
       - Cardinality(aTokens \cap bTokens) = 0
  THEN Zero ELSE Ratio(aTokens, bTokens)

similarityV2(a, b) == MatchOverTotal(UnfilteredTokens(a), UnfilteredTokens(b))

\* similarity (part_001): shared characters over the longer length; an
\* undefined argument takes the default "".
similarityP1(a, b) ==
  IF Falsy(a) \/ Falsy(b) THEN Zero
  ELSE FromRatio(Cardinality(Chars(ToLowerCase(a)) \cap Chars(ToLowerCase(b))),
                 Max(Len(a), Len(b)))

\* The Similarity Scorer of each variant.
Similarity(v, a, b) ==
  CASE v = "v1" -> tokenSimilarity(a, b)
    [] v = "v2" -> similarityV2(a, b)
    [] OTHER -> similarityP1(a, b)

(***************************************************************************)
(* Match Selector                                                          *)
(***************************************************************************)
\* JavaScript null where a URL string is expected.
Null == <<"null">>

\* JavaScript null where a track or an item is expected.
NoTrack == [none |-> TRUE]

\* track.artists.map((a) => a.name).join(" ") + " " + track.name
SpotifyCombined(track) == Join(track.artists, <<" ">>) \o <<" ">> \o track.name

\* `${artistName} ${trackName}` of searchAppleTrack, whose names are
\* item.artistName || "" and item.trackName || "", and
\* `${item.artistName} ${item.trackName}` of searchApple, where a missing
\* name gives the text "undefined".
AppleCombined(v, item) ==
  IF v = "v1"
  THEN (IF Falsy(item.artistName) THEN <<>> ELSE item.artistName)
       \o <<" ">>
       \o (IF Falsy(item.trackName) THEN <<>> ELSE item.trackName)
  ELSE (IF item.artistName = Undefined
        THEN <<"u","n","d","e","f","i","n","e","d">> ELSE item.artistName)
       \o <<" ">>
       \o (IF item.trackName = Undefined
           THEN <<"u","n","d","e","f","i","n","e","d">> ELSE item.trackName)

\* The score of one candidate in searchSpotifyTrack and searchAppleTrack
\* (first variant): similarity minus the live and the remix/mix penalties.
\* if (mismatch) score -= 0.1
Penalise(score, mismatch) ==
  IF mismatch THEN FSub(score, FromRatio(1, 10)) ELSE score

\* hasLive !== queryLive
LiveMismatch(c, q) ==
  Includes(c, <<"l","i","v","e">>) # Includes(q, <<"l","i","v","e">>)

\* hasRemix !== queryRemix, first variant: "remix" or "mix"
MixMismatch(c, q) ==
  (Includes(c, <<"r","e","m","i","x">>) \/ Includes(c, <<"m","i","x">>))
    # (Includes(q, <<"r","e","m","i","x">>) \/ Includes(q, <<"m","i","x">>))

\* second variant: "remix" only
RemixMismatch(c, q) ==
  Includes(c, <<"r","e","m","i","x">>) # Includes(q, <<"r","e","m","i","x">>)

PenalisedV1(combined, query) ==
  Penalise(Penalise(tokenSimilarity(combined, query),
                    LiveMismatch(ToLowerCase(combined), ToLowerCase(query))),
           MixMismatch(ToLowerCase(combined), ToLowerCase(query)))

\* The score of one candidate in searchSpotify (second variant).
PenalisedSpotifyV2(full, query) ==
  Penalise(Penalise(similarityV2(full, query),
                    LiveMismatch(ToLowerCase(full), ToLowerCase(query))),
           RemixMismatch(ToLowerCase(full), ToLowerCase(query)))

\* The score of one candidate of a catalog ("spotify", "apple") in the two
\* variants of server.js.
CandidateScore(v, service, cand, query) ==
  CASE v = "v1" /\ service = "spotify" -> PenalisedV1(SpotifyCombined(cand), query)
    [] v = "v1" /\ service = "apple" -> PenalisedV1(AppleCombined("v1", cand), query)
    [] v = "v2" /\ service = "spotify" -> PenalisedSpotifyV2(SpotifyCombined(cand), query)
    [] OTHER -> similarityV2(AppleCombined("v2", cand), query)

\* The loop "if (score > bestScore) { bestScore = score; best = item }".
\* if (score > bestScore) { bestScore = score; best = track; }
Better(acc, track, score) ==
  IF FLess(acc.score, score) THEN [track |-> track, score |-> score] ELSE acc

RECURSIVE BestLoop(_, _, _, _, _)
BestLoop(v, service, items, query, acc) ==
  IF items = <<>> THEN acc
  ELSE BestLoop(v, service, Tail(items), query,
                Better(acc, Head(items),
                       CandidateScore(v, service, Head(items), query)))

\* The value searchSpotifyTrack / searchAppleTrack / searchSpotify /
\* searchApple resolve to for the items the catalog returned: null for no
\* items, else {track: best, score}.
\* { track: best, score: Math.max(0, bestScore) } in the first variant,
\* { track: best, score: bestScore } in the second.
Selected(v, acc) ==
  [isNull |-> FALSE,
   track |-> acc.track,
   score |-> IF v = "v1" /\ FLess(acc.score, Zero) THEN Zero ELSE acc.score]

SelectBest(v, service, items, query) ==
  IF items = <<>> THEN [isNull |-> TRUE, track |-> NoTrack, score |-> Zero]
  ELSE Selected(v, BestLoop(v, service, items, query,
                            [track |-> NoTrack, score |-> Zero]))

\* The loop of part_001: score = s1 + s2, "if (!best || score > best.score)".
\* if (!best || score > best.score) best = { url, score }
BetterP1(best, url, score) ==
  IF best.isNull \/ FLess(best.score, score)
  THEN [isNull |-> FALSE, url |-> url, score |-> score]
  ELSE best

\* score = s1 + s2 of one Spotify track and of one iTunes item
ScoreSpotifyP1(item, parsed) ==
  FAdd(similarityP1(item.name, parsed.song),
       similarityP1(Join(item.artists, <<" ">>), parsed.artist))

ScoreAppleP1(item, parsed) ==
  FAdd(similarityP1(item.trackName, parsed.song),
       similarityP1(item.artistName, parsed.artist))

RECURSIVE BestLoopP1(_, _, _, _)
BestLoopP1(service, items, parsed, best) ==
  IF items = <<>> THEN best
  ELSE BestLoopP1(service, Tail(items), parsed,
                  IF service = "spotify"
                  THEN BetterP1(best, Head(items).url,
                                ScoreSpotifyP1(Head(items), parsed))
                  ELSE BetterP1(best, Head(items).trackViewUrl,
                                ScoreAppleP1(Head(items), parsed)))

NullBest == [isNull |-> TRUE, url |-> Null, score |-> Zero]

\* { url: null, score: 0 }
NoMatchP1 == [isNull |-> FALSE, url |-> Null, score |-> Zero]

(***************************************************************************)
(* Confidence Aggregator and link exposure                                 *)
(***************************************************************************)
CONFIDENCE_SEARCH_THRESHOLD == 74

\* if (x) for a score: a score is never NaN, every selector dividing by a
\* nonzero count.
Truthy(x) == x # Zero

\* The weights 0.6 and 0.3: spotifyScore * 0.6 + appleScore * 0.3.
RawConfidenceLight(spotifyScore, appleScore) ==
  IF Truthy(spotifyScore) /\ Truthy(appleScore)
  THEN FAdd(FMul(spotifyScore, FromRatio(6, 10)), FMul(appleScore, FromRatio(3, 10)))
  ELSE IF Truthy(spotifyScore) THEN spotifyScore
       ELSE IF Truthy(appleScore) THEN appleScore
            ELSE Zero

\* The weights exchanged: spotifyScore * 0.4 + appleScore * 0.6.
RawConfidenceSwapped(spotifyScore, appleScore) ==
  IF Truthy(spotifyScore) /\ Truthy(appleScore)
  THEN FAdd(FMul(spotifyScore, FromRatio(4, 10)), FMul(appleScore, FromRatio(6, 10)))
  ELSE IF Truthy(spotifyScore) THEN spotifyScore
       ELSE IF Truthy(appleScore) THEN appleScore
            ELSE Zero

\* spotifyScore * 0.6 + appleScore * 0.4 when both are truthy, else the
\* truthy one, else 0.
RawConfidence(spotifyScore, appleScore) ==
  IF Truthy(spotifyScore) /\ Truthy(appleScore)
  THEN FAdd(FMul(spotifyScore, FromRatio(6, 10)), FMul(appleScore, FromRatio(4, 10)))
  ELSE IF Truthy(spotifyScore) THEN spotifyScore
       ELSE IF Truthy(appleScore) THEN appleScore
            ELSE Zero

\* Math.round(confidenceScore * 100), clamped to [0, 100].
\* if (confidence > 100) confidence = 100; if (confidence < 0) confidence = 0
Clamp(confidence) ==
  IF confidence > 100 THEN 100 ELSE IF confidence < 0 THEN 0 ELSE confidence

Confidence(spotifyScore, appleScore) ==
  Clamp(FRound(FMul(RawConfidence(spotifyScore, appleScore), FromRatio(100, 1))))

\* (score || 0) of the second variant, where score is never NaN.
RawConfidenceV2(spotifyScore, appleScore) ==
  IF Truthy(spotifyScore) /\ Truthy(appleScore)
  THEN FAdd(FMul(spotifyScore, FromRatio(6, 10)), FMul(appleScore, FromRatio(4, 10)))
  ELSE IF Truthy(spotifyScore) THEN spotifyScore ELSE appleScore

\* Math.min(Math.max(Math.round((score || 0) * 100), 0), 100)
ConfidenceV2(spotifyScore, appleScore) ==
  Min(Max(FRound(FMul(RawConfidenceV2(spotifyScore, appleScore), FromRatio(100, 1))),
          0), 100)

\* The Confidence Aggregator of each variant of server.js.
ConfidenceOf(v, spotifyScore, appleScore) ==
  IF v = "v1" THEN Confidence(spotifyScore, appleScore)
  ELSE ConfidenceV2(spotifyScore, appleScore)

\* The chain with "confidence > 75" for the second test.
MatchTypeStrict(confidence) ==
  IF confidence >= 90 THEN "exact"
  ELSE IF confidence > 75 THEN "high"
       ELSE IF confidence >= 50 THEN "medium"
            ELSE "low"

\* The matchType chain of both variants of server.js.
MatchType(confidence) ==
  IF confidence >= 90 THEN "exact"
  ELSE IF confidence >= 75 THEN "high"
       ELSE IF confidence >= 50 THEN "medium"
            ELSE "low"

\* The characters of the model with their codes: the printable ASCII
\* characters, from code 32 on; the grave accent, which no string of the
\* notation can hold, is the one-character string "BACKTICK".
Ascii ==
  <<" ", "!", "\"", "#", "$", "%", "&", "'", "(", ")", "*", "+", ",", "-", ".", "/",
    "0", "1", "2", "3", "4", "5", "6", "7", "8", "9", ":", ";", "<", "=", ">", "?",
    "@", "A", "B", "C", "D", "E", "F", "G", "H", "I", "J", "K", "L", "M", "N", "O",
    "P", "Q", "R", "S", "T", "U", "V", "W", "X", "Y", "Z", "[", "\\", "]", "^", "_",
    "BACKTICK", "a", "b", "c", "d", "e", "f", "g", "h", "i", "j", "k", "l", "m", "n", "o",
    "p", "q", "r", "s", "t", "u", "v", "w", "x", "y", "z", "{", "|", "}", "~">>

\* The characters encodeURIComponent leaves as they are: A-Z a-z 0-9 and
\* - _ . ! ~ * ' ( )
Unreserved ==
  Range(UpperCase) \cup Range(LowerCase)
  \cup {"0", "1", "2", "3", "4", "5", "6", "7", "8", "9"}
  \cup {"-", "_", ".", "!", "~", "*", "'", "(", ")"}

\* encodeURIComponent on one character that is not unreserved: the percent
\* escapes of its UTF-8 bytes, one byte for an ASCII character, E2 80 93 and
\* E2 80 94 for the en dash and the em dash.
Escapes ==
  [c \in (Range(Ascii) \cup {"\t", "\n", "\f", "\r", "ENDASH", "EMDASH"})
           \ Unreserved |->
     LET hex == <<"0", "1", "2", "3", "4", "5", "6", "7", "8", "9",
                  "A", "B", "C", "D", "E", "F">>
         code == CASE c = "\t" -> 9
                   [] c = "\n" -> 10
                   [] c = "\f" -> 12
                   [] c = "\r" -> 13
                   [] c \in {"ENDASH", "EMDASH"} -> 0
                   [] OTHER -> 31 + CHOOSE i \in 1..Len(Ascii) : Ascii[i] = c
     IN  CASE c = "ENDASH" -> <<"%","E","2","%","8","0","%","9","3">>
           [] c = "EMDASH" -> <<"%","E","2","%","8","0","%","9","4">>
           [] OTHER -> <<"%", hex[(code \div 16) + 1], hex[(code % 16) + 1]>>]

\* encodeURIComponent, on strings of the characters above.
RECURSIVE encodeURIComponent(_)
encodeURIComponent(s) ==
  IF s = <<>> THEN <<>>
  ELSE (IF Head(s) \in Unreserved THEN <<Head(s)>> ELSE Escapes[Head(s)])
       \o encodeURIComponent(Tail(s))

\* A URL: a fixed prefix and the string appended to it.
Url(base, rest) == [base |-> base, rest |-> rest]

NullUrl == Url("null", <<>>)

SpotifySearchUrl(q) == Url("https://open.spotify.com/search/", encodeURIComponent(q))

AppleSearchUrl(q) ==
  Url("https://music.apple.com/us/search?term=", encodeURIComponent(q))

\* The SoundCloud search link of the two variants of server.js.
SoundCloudUrl(v, q) ==
  Url(IF v = "v1" THEN "https://soundcloud.com/search?q="
      ELSE "https://soundcloud.com/search/sounds?q=",
      encodeURIComponent(q))

SpotifyTrackUrl(track) == Url("https://open.spotify.com/track/", track.id)

\* x || y on URLs: null and the empty string are falsy.
OrElse(x, y) == IF x = NullUrl \/ x = Url("", <<>>) THEN y ELSE x

\* What the handler reads from a settled branch: the direct URL and the
\* score, or null and 0 unless the branch is fulfilled with a track.
BranchUrl(service, b) ==
  IF b.st = "fulfilled" /\ ~b.value.isNull /\ b.value.track # NoTrack
  THEN IF service = "spotify" THEN SpotifyTrackUrl(b.value.track)
       ELSE Url("", b.value.track.trackViewUrl)
  ELSE NullUrl

BranchScore(b) ==
  IF b.st = "fulfilled" /\ ~b.value.isNull /\ b.value.track # NoTrack
  THEN b.value.score ELSE Zero

\* The 200 response of the first variant of server.js.
BuildV1(query, confidence, spotifyUrl, appleMusicUrl, spotifySearchUrl, appleSearchUrl) ==
  [status |-> 200,
   cleanedQuery |-> query,
   confidence |-> confidence,
   matchType |-> MatchType(confidence),
   spotifyUrl |-> IF confidence < CONFIDENCE_SEARCH_THRESHOLD
                  THEN spotifySearchUrl
                  ELSE OrElse(spotifyUrl, spotifySearchUrl),
   appleMusicUrl |-> IF confidence < CONFIDENCE_SEARCH_THRESHOLD
                     THEN appleSearchUrl
                     ELSE OrElse(appleMusicUrl, appleSearchUrl),
   soundCloudUrl |-> SoundCloudUrl("v1", query)]

ResponseV1(query, s, a) ==
  BuildV1(query, Confidence(BranchScore(s), BranchScore(a)),
          BranchUrl("spotify", s), BranchUrl("apple", a),
          SpotifySearchUrl(query), AppleSearchUrl(query))

\* The 200 response of the second variant of server.js.
BuildV2(query, confidence, spotifyUrl, appleUrl, spotifySearch, appleSearch) ==
  [status |-> 200,
   cleanedQuery |-> query,
   confidence |-> confidence,
   matchType |-> MatchType(confidence),
   spotifyUrl |-> IF confidence < 74 THEN spotifySearch ELSE spotifyUrl,
   appleMusicUrl |-> IF confidence < 74 THEN appleSearch ELSE appleUrl,
   soundCloudUrl |-> SoundCloudUrl("v2", query)]

ResponseV2(query, s, a) ==
  BuildV2(query, ConfidenceV2(BranchScore(s), BranchScore(a)),
          BranchUrl("spotify", s), BranchUrl("apple", a),
          SpotifySearchUrl(query), AppleSearchUrl(query))

\* The end of the handler of part_001: reading sApple.score of a null
\* sApple throws, and the catch answers 500.  A direct link needs
\* score >= 1.0; the percents are Math.round((score / 2) * 100), where
\* halving a double is exact, as is the product by 1/2.
ResponseP1(cleaned, parsed, sSpotify, sApple) ==
  IF sApple.isNull THEN [status |-> 500]
  ELSE [status |-> 200,
        cleanedQuery |-> cleaned,
        spotifyUrl |-> IF ~FLess(sSpotify.score, FromRatio(1, 1))
                       THEN Url("", sSpotify.url) ELSE NullUrl,
        appleUrl |-> IF ~FLess(sApple.score, FromRatio(1, 1))
                     THEN Url("", sApple.url) ELSE NullUrl,
        spotifySearch |-> SpotifySearchUrl(parsed.artist \o <<" ">> \o parsed.song),
        appleSearch |-> AppleSearchUrl(parsed.artist \o <<" ">> \o parsed.song),
        confidence |->
          [spotify |-> FRound(FMul(FMul(sSpotify.score, FromRatio(1, 2)),
                                   FromRatio(100, 1))),
           apple |-> FRound(FMul(FMul(sApple.score, FromRatio(1, 2)),
                                 FromRatio(100, 1)))]]

(***************************************************************************)
(* The request handler: POST /api/convert                                  *)
(***************************************************************************)
\* The servers of the repository: the two variants of server.js, part_001,
\* and part_000 ("p0"), whose handler is a placeholder without matching
\* logic.
Variants == {"v1", "v2", "p1", "p0"}

MaxItems == 2

VideoUrl == <<"h","t","t","p","s",":","/","/","y","t","/","x">>

\* Titles the metadata endpoint may return: "Ab - Cd (Official Video) [HD]"
\* and "Ab - Cd Ef"; Undefined is a reply without one.
Titles ==
  {<<"A","b"," ","-"," ","C","d"," ","(","O","f","f","i","c","i","a","l"," ",
     "V","i","d","e","o",")"," ","[","H","D","]">>,
   <<"A","b"," ","-"," ","C","d"," ","E","f">>,
   Undefined}

\* Tracks the Spotify search may return.
SpotifyPool ==
  {[name |-> <<"C","d">>, artists |-> << <<"A","b">> >>,
    id |-> <<"s","1">>, url |-> <<"u","s","1">>],
   [name |-> <<"C","d"," ","E","f">>, artists |-> << <<"A","b">> >>,
    id |-> <<"s","2">>, url |-> <<"u","s","2">>],
   [name |-> <<"C","d"," ","(","L","i","v","e",")">>, artists |-> << <<"A","b">> >>,
    id |-> <<"s","3">>, url |-> <<"u","s","3">>],
   [name |-> <<"I","j">>, artists |-> << <<"G","h">>, <<"K","l">> >>,
    id |-> <<"s","4">>, url |-> <<"u","s","4">>]}

\* Items the iTunes search may return; one has an empty trackViewUrl and
\* one lacks its trackName.
ApplePool ==
  {[trackName |-> <<"C","d">>, artistName |-> <<"A","b">>,
    trackViewUrl |-> <<"a","1">>],
   [trackName |-> <<"C","d"," ","E","f"," ","G","h">>, artistName |-> <<"A","b">>,
    trackViewUrl |-> <<"a","2">>],
   [trackName |-> <<"I","j">>, artistName |-> <<"G","h">>,
    trackViewUrl |-> <<"a","3">>],
   [trackName |-> <<"C","d">>, artistName |-> <<"A","b">>,
    trackViewUrl |-> <<>>],
   [trackName |-> Undefined, artistName |-> <<"A","b">>,
    trackViewUrl |-> <<"a","4">>]}

\* What an upstream call may come back with: a transport or API error, a
\* body of another shape, or a list of at most MaxItems items.
SearchReplies(pool) ==
  {[kind |-> k, items |-> <<>>] : k \in {"error", "malformed"}}
  \cup {[kind |-> "ok", items |-> l] : l \in StringsUpTo(pool, MaxItems)}

MetaReplies ==
  {[kind |-> k, title |-> Undefined] : k \in {"error", "malformed"}}
  \cup {[kind |-> "ok", title |-> t] : t \in Titles}

\* How a branch sees a reply.
KindOf(r) ==
  IF r.kind = "ok" THEN (IF r.items = <<>> THEN "empty" ELSE "items")
  ELSE r.kind

\* A branch: st is "idle", "token" (awaiting the credential exchange),
\* "search" (awaiting a search), "fulfilled" or "rejected"; value is what it
\* resolved to; qi counts the searches of the loop of part_001; seen is the
\* kinds of reply it received.
Branch(st, value, qi, seen) == [st |-> st, value |-> value, qi |-> qi, seen |-> seen]

Idle == Branch("idle", NullBest, 0, {})

Settled(b) == b.st \in {"fulfilled", "rejected"}

NoResponse == [status |-> 0]

\* The fixed 200 response of part_000.
PlaceholderResponse ==
  [status |-> 200,
   youtubeTitle |-> <<"T","e","s","t"," ","s","u","c","c","e","s","s">>,
   cleanedQuery |-> <<"T","e","s","t">>,
   confidence |-> 90,
   spotifyUrl |-> Url("https://open.spotify.com/", <<>>),
   appleMusicUrl |-> Url("https://music.apple.com/", <<>>),
   soundCloudUrl |-> Url("https://soundcloud.com/", <<>>)]

Init ==
  /\ variant \in Variants
  /\ creds \in BOOLEAN
  /\ youtubeUrl \in {Undefined, <<>>, VideoUrl}
  /\ pc = "start"
  /\ calls = <<>>
  /\ rawTitle = Undefined
  /\ cleanedQuery = <<>>
  /\ sp = Idle
  /\ ap = Idle
  /\ response = NoResponse
  /\ fnIn = [fn |-> "none"]
  /\ fnOut = <<>>

\* The handler up to its first await: the validation of the first variant,
\* of part_001 and of part_000 (the second variant has none), then the
\* fixed response of part_000 or the metadata call of the others.
Receive ==
  /\ pc = "start"
  /\ IF variant \in {"v1", "p1", "p0"} /\ Falsy(youtubeUrl)
     THEN /\ response' = [status |-> 400]
          /\ pc' = "done"
          /\ UNCHANGED calls
     ELSE IF variant = "p0"
          THEN /\ response' = PlaceholderResponse
               /\ pc' = "done"
               /\ UNCHANGED calls
          ELSE /\ calls' = Append(calls, "meta")
               /\ pc' = "awaitMeta"
               /\ UNCHANGED response
  /\ UNCHANGED <<variant, creds, youtubeUrl, rawTitle, cleanedQuery, sp, ap,
                 fnIn, fnOut>>

\* searchSpotifyTrack / searchSpotify up to its first await: the first
\* variant throws before any call when a credential is missing.
StartSpotify(v) ==
  IF v = "v1" /\ ~creds THEN Branch("rejected", NullBest, 0, {})
  ELSE Branch("token", NullBest, 0, {})

\* The metadata call returns and the handler runs to its next await: it
\* cleans the title and, in server.js, starts both searches and awaits
\* Promise.allSettled; in part_001 it starts searchSpotifyTrack and awaits it.
MetaReply ==
  /\ pc = "awaitMeta"
  /\ \E r \in MetaReplies :
       IF r.kind # "ok"
       THEN /\ response' = [status |-> 500]
            /\ pc' = "done"
            /\ UNCHANGED <<calls, rawTitle, cleanedQuery, sp, ap>>
       ELSE IF variant = "p1"
            THEN IF Falsy(r.title)
                 THEN /\ response' = [status |-> 404]
                      /\ pc' = "done"
                      /\ UNCHANGED <<calls, rawTitle, cleanedQuery, sp, ap>>
                 ELSE /\ rawTitle' = r.title
                      /\ cleanedQuery' = cleanedP1(r.title)
                      /\ sp' = Branch("token", NullBest, 0, {})
                      /\ calls' = Append(calls, "token")
                      /\ pc' = "awaitSpotify"
                      /\ UNCHANGED <<ap, response>>
            ELSE /\ rawTitle' = r.title
                 /\ cleanedQuery' = CleanTitleOf(variant, r.title)
                 /\ sp' = StartSpotify(variant)
                 /\ ap' = Branch("search", NullBest, 0, {})
                 /\ calls' = calls
                      \o (IF StartSpotify(variant).st = "token"
                          THEN <<"token">> ELSE <<>>)
                      \o <<"appleSearch">>
                 /\ pc' = "join"
                 /\ UNCHANGED response
  /\ UNCHANGED <<variant, creds, youtubeUrl, fnIn, fnOut>>

\* The credential exchange returns: the search is issued, or the branch
\* fails (rejected in server.js, caught into {url: null, score: 0} in
\* part_001).
TokenReply ==
  /\ sp.st = "token"
  /\ \E k \in {"ok", "error", "malformed"} :
       IF k = "ok"
       THEN /\ sp' = Branch("search", NullBest, 0, {})
            /\ calls' = Append(calls, "spotifySearch")
       ELSE /\ sp' = IF variant = "p1"
                     THEN Branch("fulfilled", NoMatchP1, 0, {k})
                     ELSE Branch("rejected", NullBest, 0, {k})
            /\ UNCHANGED calls
  /\ UNCHANGED <<variant, creds, youtubeUrl, pc, rawTitle, cleanedQuery, ap,
                 response, fnIn, fnOut>>

\* What the Spotify branch settles to for a search reply.
SpotifyOutcome(v, r, query) ==
  IF v = "p1"
  THEN Branch("fulfilled",
              IF KindOf(r) = "items"
              THEN BestLoopP1("spotify", r.items, extractArtistAndSong(query),
                              NullBest)
              ELSE NoMatchP1,
              0, {KindOf(r)})
  ELSE IF r.kind = "ok"
       THEN Branch("fulfilled", SelectBest(v, "spotify", r.items, query),
                   0, {KindOf(r)})
       ELSE Branch("rejected", NullBest, 0, {KindOf(r)})

SpotifyReply ==
  /\ sp.st = "search"
  /\ \E r \in SearchReplies(SpotifyPool) :
       sp' = SpotifyOutcome(variant, r, cleanedQuery)
  /\ UNCHANGED <<variant, creds, youtubeUrl, pc, calls, rawTitle, cleanedQuery,
                 ap, response, fnIn, fnOut>>

\* The search terms of searchAppleMusicTrack (part_001).
AppleQueries(artist, song) ==
  (IF artist # <<>> /\ song # <<>>
   THEN <<artist \o <<" ">> \o song, song \o <<" ">> \o artist>> ELSE <<>>)
  \o <<song>>
  \o (IF artist # <<>> THEN <<artist>> ELSE <<>>)

\* What the Apple branch becomes for a search reply: settled in server.js;
\* in part_001 the next search of the loop, or the best found (null when no
\* search returned an item).
LoopP1(r, parsed, b) ==
  Branch(IF b.qi < Len(AppleQueries(parsed.artist, parsed.song))
         THEN "search" ELSE "fulfilled",
         IF KindOf(r) = "items"
         THEN BestLoopP1("apple", r.items, parsed, b.value) ELSE b.value,
         IF b.qi < Len(AppleQueries(parsed.artist, parsed.song))
         THEN b.qi + 1 ELSE b.qi,
         b.seen \cup {KindOf(r)})

AppleOutcome(v, r, query, b) ==
  IF v = "p1" THEN LoopP1(r, extractArtistAndSong(query), b)
  ELSE IF r.kind = "ok"
       THEN Branch("fulfilled", SelectBest(v, "apple", r.items, query),
                   0, {KindOf(r)})
       ELSE Branch("rejected", NullBest, 0, {KindOf(r)})

AppleReply ==
  /\ ap.st = "search"
  /\ \E r \in SearchReplies(ApplePool) :
       /\ ap' = AppleOutcome(variant, r, cleanedQuery, ap)
       /\ calls' = IF ap'.st = "search" THEN Append(calls, "appleSearch")
                   ELSE calls
  /\ UNCHANGED <<variant, creds, youtubeUrl, pc, rawTitle, cleanedQuery, sp,
                 response, fnIn, fnOut>>

\* part_001: "await searchSpotifyTrack(...)" returns and only then
\* searchAppleMusicTrack is called and issues its first search.
StartApple ==
  /\ variant = "p1"
  /\ pc = "awaitSpotify"
  /\ Settled(sp)
  /\ ap' = Branch("search", NullBest, 1, {})
  /\ calls' = Append(calls, "appleSearch")
  /\ pc' = "awaitApple"
  /\ UNCHANGED <<variant, creds, youtubeUrl, rawTitle, cleanedQuery, sp,
                 response, fnIn, fnOut>>

\* server.js: Promise.allSettled resolves once both branches have settled,
\* and the handler builds the 200 response.
AllSettled ==
  /\ variant \in {"v1", "v2"}
  /\ pc = "join"
  /\ Settled(sp) /\ Settled(ap)
  /\ response' = IF variant = "v1" THEN ResponseV1(cleanedQuery, sp, ap)
                 ELSE ResponseV2(cleanedQuery, sp, ap)
  /\ pc' = "done"
  /\ UNCHANGED <<variant, creds, youtubeUrl, calls, rawTitle, cleanedQuery,
                 sp, ap, fnIn, fnOut>>

\* part_001: "await searchAppleMusicTrack(...)" returns and the handler
\* builds its response.
FinishP1 ==
  /\ variant = "p1"
  /\ pc = "awaitApple"
  /\ Settled(ap)
  /\ response' = ResponseP1(cleanedQuery, extractArtistAndSong(cleanedQuery),
                            sp.value, ap.value)
  /\ pc' = "done"
  /\ UNCHANGED <<variant, creds, youtubeUrl, calls, rawTitle, cleanedQuery,
                 sp, ap, fnIn, fnOut>>

Next ==
  \/ Receive
  \/ MetaReply
  \/ TokenReply
  \/ SpotifyReply
  \/ AppleReply
  \/ StartApple
  \/ AllSettled
  \/ FinishP1

Spec == Init /\ [][Next]_vars

(***************************************************************************)
(* Pure functions under check: the arguments are drawn in the initial      *)
(* state and one action applies the function of the variant.               *)
(***************************************************************************)
\* The request handler is not running.
HandlerOff ==
  /\ creds = FALSE
  /\ youtubeUrl = Undefined
  /\ pc = "off"
  /\ calls = <<>>
  /\ rawTitle = Undefined
  /\ cleanedQuery = <<>>
  /\ sp = Idle
  /\ ap = Idle
  /\ response = NoResponse

MaxSimLen == 3

SimAlphabet == {"a", "B", " ", "-"}

\* part_000 has no scorer.
InitSim ==
  /\ variant \in Variants \ {"p0"}
  /\ fnIn \in [fn : {"similarity"},
               a : StringsUpTo(SimAlphabet, MaxSimLen),
               b : StringsUpTo(SimAlphabet, MaxSimLen)]
  /\ fnOut = <<>>
  /\ HandlerOff

ApplySimilarity ==
  /\ fnIn.fn = "similarity"
  /\ fnOut = <<>>
  /\ fnOut' = <<Similarity(variant, fnIn.a, fnIn.b)>>
  /\ UNCHANGED <<variant, fnIn, handlerVars>>

NextSim == ApplySimilarity

SpecSim == InitSim /\ [][NextSim]_vars

MaxNameLen == 2

MaxGroups == 2

NameAlphabet == {"A", "b", " "}

\* Artist and track names: non-empty, trimmed, single-spaced.
Names ==
  {n \in StringsUpTo(NameAlphabet, MaxNameLen) :
     n # <<>> /\ Trim(CollapseSpaces(n)) = n}

\* Parenthesised and square-bracketed groups, with and without the space
\* that usually precedes them.
GroupPool ==
  { <<" ","(","O","f","f","i","c","i","a","l"," ","V","i","d","e","o",")">>,
    <<" ","[","H","D","]">>,
    <<"(","b",")">>,
    <<"[","4","K","]">> }

RECURSIVE Concat(_)
Concat(parts) == IF parts = <<>> THEN <<>> ELSE Head(parts) \o Concat(Tail(parts))

TitleInputs ==
  {[fn |-> "clean", artist |-> <<>>, track |-> <<>>, raw |-> r] :
     r \in {Undefined, <<>>}}
  \cup
  {[fn |-> "clean", artist |-> x, track |-> y,
    raw |-> x \o Dash \o y \o Concat(g)] :
     x \in Names, y \in Names, g \in StringsUpTo(GroupPool, MaxGroups)}

\* part_000 cleans no title.
InitTitle ==
  /\ variant \in Variants \ {"p0"}
  /\ fnIn \in TitleInputs
  /\ fnOut = <<>>
  /\ HandlerOff

\* part_001 answers 404 when the title is missing or empty and cleans
\* nothing.
ApplyClean ==
  /\ fnIn.fn = "clean"
  /\ fnOut = <<>>
  /\ ~(variant = "p1" /\ Falsy(fnIn.raw))
  /\ fnOut' = <<CleanTitleOf(variant, fnIn.raw)>>
  /\ UNCHANGED <<variant, fnIn, handlerVars>>

NextTitle == ApplyClean

SpecTitle == InitTitle /\ [][NextTitle]_vars

GridDen == 10

TieDen == 8

\* The ratios n/GridDen and n/TieDen from 0 to 1; the latter give raw
\* confidences halfway between two percents (3/8 and 1/4 give 32.5).
GridRatios ==
  {<<n, GridDen>> : n \in 0..GridDen} \cup {<<n, TieDen>> : n \in 0..TieDen}

\* The scores of these ratios, as the division of the scorer gives them.
ScoreGrid == {FromRatio(r[1], r[2]) : r \in GridRatios}

InitAgg ==
  /\ variant \in {"v1", "v2"}
  /\ fnIn \in [fn : {"confidence"}, spotifyScore : ScoreGrid,
                appleScore : ScoreGrid]
  /\ fnOut = <<>>
  /\ HandlerOff

ApplyConfidence ==
  /\ fnIn.fn = "confidence"
  /\ fnOut = <<>>
  /\ fnOut' = <<ConfidenceOf(variant, fnIn.spotifyScore, fnIn.appleScore)>>
  /\ UNCHANGED <<variant, fnIn, handlerVars>>

NextAgg == ApplyConfidence

SpecAgg == InitAgg /\ [][NextAgg]_vars

\* Candidates a search may return, as artist, title and key: two equal
\* ones, a live one, a remix, a mix, and two that share no token with the
\* queries.
SelEntries ==
  {[artist |-> <<"A","b">>, title |-> <<"C","d">>, key |-> <<"k","1">>],
   [artist |-> <<"A","b">>, title |-> <<"C","d">>, key |-> <<"k","2">>],
   [artist |-> <<"A","b">>, title |-> <<"C","d"," ","L","i","v","e">>,
    key |-> <<"k","3">>],
   [artist |-> <<"A","b">>, title |-> <<"C","d"," ","R","e","m","i","x">>,
    key |-> <<"k","4">>],
   [artist |-> <<"A","b">>, title |-> <<"C","d"," ","M","i","x">>,
    key |-> <<"k","5">>],
   [artist |-> <<"G","h">>, title |-> <<"I","j">>, key |-> <<"k","6">>],
   [artist |-> <<"G","h">>, title |-> <<"L","i","v","e">>, key |-> <<"k","7">>]}

SelQueries ==
  {<<"a","b"," ","c","d">>,
   <<"a","b"," ","c","d"," ","l","i","v","e">>,
   <<"a","b"," ","c","d"," ","m","i","x">>}

\* An entry as a Spotify track and as an iTunes item.
ItemOf(service, e) ==
  IF service = "spotify"
  THEN [name |-> e.title, artists |-> <<e.artist>>, id |-> e.key, url |-> e.key]
  ELSE [trackName |-> e.title, artistName |-> e.artist, trackViewUrl |-> e.key]

ItemsOf(service, entries) == [i \in DOMAIN entries |-> ItemOf(service, entries[i])]

InitSel ==
  /\ variant \in {"v1", "v2"}
  /\ \E service \in {"spotify", "apple"}, l \in StringsUpTo(SelEntries, MaxItems),
        q \in SelQueries :
       fnIn = [fn |-> "select", service |-> service,
               items |-> ItemsOf(service, l), query |-> q]
  /\ fnOut = <<>>
  /\ HandlerOff

\* The value "score" has in each iteration of the loop, when the test
\* "score > bestScore" is reached.
LoopScores(v, service, items, query) ==
  [i \in DOMAIN items |-> CandidateScore(v, service, items[i], query)]

\* One selector of server.js applied to the items of a reply.
ApplySelect ==
  /\ fnIn.fn = "select"
  /\ fnOut = <<>>
  /\ fnOut' = <<[selected |-> SelectBest(variant, fnIn.service, fnIn.items,
                                         fnIn.query),
                 scores |-> LoopScores(variant, fnIn.service, fnIn.items,
                                       fnIn.query)]>>
  /\ UNCHANGED <<variant, fnIn, handlerVars>>

NextSel == ApplySelect

SpecSel == InitSel /\ [][NextSel]_vars

\* The handler of server.js from the settled searches on, for two given
\* scores: a score of 0 is a catalog without a track (a selector returns a
\* track only with a score above 0), any other score comes with a track.
LinkQuery == <<"a","b"," ","c","d">>

LinkTrack ==
  [name |-> <<"C","d">>, artists |-> << <<"A","b">> >>,
   id |-> <<"s","1">>, url |-> <<"u","s","1">>]

LinkItem ==
  [trackName |-> <<"C","d">>, artistName |-> <<"A","b">>,
   trackViewUrl |-> <<"a","1">>]

ScoredBranch(track, score) ==
  IF Truthy(score)
  THEN Branch("fulfilled", [isNull |-> FALSE, track |-> track, score |-> score],
              0, {"items"})
  ELSE Branch("fulfilled", [isNull |-> TRUE, track |-> NoTrack, score |-> Zero],
              0, {"empty"})

RespondTo(v, spotifyScore, appleScore) ==
  IF v = "v1"
  THEN ResponseV1(LinkQuery, ScoredBranch(LinkTrack, spotifyScore),
                  ScoredBranch(LinkItem, appleScore))
  ELSE ResponseV2(LinkQuery, ScoredBranch(LinkTrack, spotifyScore),
                  ScoredBranch(LinkItem, appleScore))

InitLink ==
  /\ variant \in {"v1", "v2"}
  /\ fnIn \in [fn : {"respond"}, spotifyScore : ScoreGrid,
                appleScore : ScoreGrid]
  /\ fnOut = <<>>
  /\ HandlerOff

ApplyRespond ==
  /\ fnIn.fn = "respond"
  /\ fnOut = <<>>
  /\ fnOut' = <<RespondTo(variant, fnIn.spotifyScore, fnIn.appleScore)>>
  /\ UNCHANGED <<variant, fnIn, handlerVars>>

NextLink == ApplyRespond

SpecLink == InitLink /\ [][NextLink]_vars

(***************************************************************************)
(* Claims                                                                  *)
(***************************************************************************)
\* What a response and a branch hold, read the way each variant names it.
Answered == pc = "done" /\ response.status = 200

AppleUrlOf(r) == IF variant = "p1" THEN r.appleUrl ELSE r.appleMusicUrl

ConfidenceFor(service, r) ==
  IF variant = "p1"
  THEN (IF service = "spotify" THEN r.confidence.spotify ELSE r.confidence.apple)
  ELSE r.confidence

DirectUrlOf(service, b) ==
  IF variant = "p1"
  THEN (IF b.value.isNull \/ b.value.url = Null THEN NullUrl
        ELSE Url("", b.value.url))
  ELSE BranchUrl(service, b)

SearchesStarted == sp.st # "idle"

\* A catalog whose calls all failed: rejected, erroring or malformed.
Failed(b) ==
  \/ b.st = "rejected"
  \/ Settled(b) /\ b.seen # {} /\ b.seen \subseteq {"error", "malformed"}

\* A catalog whose searches all returned zero results.
ZeroResults(b) == Settled(b) /\ b.seen = {"empty"}

\* C1: a request whose youtubeUrl is missing or empty is answered 400, and
\* no outbound call (metadata, credential exchange, search) is made for it.
C1_Claim ==
  (Falsy(youtubeUrl) /\ pc # "start") =>
    /\ calls = <<>>
    /\ pc = "done"
    /\ response.status = 400

\* C2: once the metadata fetch has succeeded and the searches have started,
\* the request is answered 200 whatever catalog calls fail; when both
\* catalogs failed the confidence is 0 and both URLs are the search-page
\* fallbacks built from the cleaned query.
C2_Claim ==
  (pc = "done" /\ SearchesStarted) =>
    /\ response.status = 200
    /\ (Failed(sp) /\ Failed(ap)) =>
         /\ ConfidenceFor("spotify", response) = 0
         /\ ConfidenceFor("apple", response) = 0
         /\ response.spotifyUrl = SpotifySearchUrl(response.cleanedQuery)
         /\ AppleUrlOf(response) = AppleSearchUrl(response.cleanedQuery)

\* The token set of section 4.2, from its definition: the maximal runs of
\* characters that are neither white space nor in the punctuation class,
\* lowercased.
IsSeparator(c) == IsSpace(c) \/ c \in MatchPunct

RECURSIVE TokenSet(_, _)
TokenSet(s, cur) ==
  IF s = <<>> THEN (IF cur = <<>> THEN {} ELSE {cur})
  ELSE IF IsSeparator(Head(s))
       THEN (IF cur = <<>> THEN {} ELSE {cur}) \cup TokenSet(Tail(s), <<>>)
       ELSE TokenSet(Tail(s), Append(cur, LowerChar(Head(s))))

Jaccard(A, B) ==
  IF A = {} \/ B = {} THEN Zero
  ELSE FromRatio(Cardinality(A \cap B),
                 Cardinality(A) + Cardinality(B) - Cardinality(A \cap B))

\* C9: the Similarity Scorer returns the Jaccard ratio of the normalized
\* token sets of its two arguments, and 0 when either token set is empty;
\* hence it is symmetric, lies in [0,1] and similarity(a,a) = 1 when a has a
\* token.
C9_Claim ==
  (fnIn.fn = "similarity" /\ fnOut # <<>>) =>
    LET A == TokenSet(fnIn.a, <<>>)
        B == TokenSet(fnIn.b, <<>>)
        r == fnOut[1]
    IN  /\ r = Jaccard(A, B)
        /\ r = Similarity(variant, fnIn.b, fnIn.a)
        /\ ~FLess(r, Zero) /\ ~FLess(FromRatio(1, 1), r)
        /\ (fnIn.a = fnIn.b /\ A # {}) => r = FromRatio(1, 1)

\* C10: a title "<Artist> - <Track>" followed by bracketed groups is
\* normalized to the lowercased "<artist> <track>", whose tokens are those of
\* artist and track; an empty or null title gives the empty string.
C10_Claim ==
  (fnIn.fn = "clean" /\ fnOut # <<>>) =>
    IF Falsy(fnIn.raw) THEN fnOut[1] = <<>>
    ELSE /\ fnOut[1] = ToLowerCase(fnIn.artist \o <<" ">> \o fnIn.track)
         /\ TokenSet(fnOut[1], <<>>)
              = TokenSet(fnIn.artist, <<>>) \cup TokenSet(fnIn.track, <<>>)


\* Whether the confidence of the response is one number: the response of
\* part_001 holds the object {spotify, apple} in its place.
ConfidenceIsNumber == variant # "p1"

\* C3: in every 200 response of every server the confidence is one integer
\* of 0..100, whatever scores the two selectors produced (one or both may be
\* 0); no other value, NaN included, stands in its place.
C3_Claim ==
  Answered => (ConfidenceIsNumber /\ response.confidence \in 0..100)

\* The exact raw confidence of the ratios s and a, as a rational <<n, d>>.
ExactRaw(s, a) ==
  IF s[1] # 0 /\ a[1] # 0
  THEN <<6 * s[1] * a[2] + 4 * a[1] * s[2], 10 * s[2] * a[2]>>
  ELSE IF s[1] # 0 THEN s ELSE IF a[1] # 0 THEN a ELSE <<0, 1>>

\* The integers nearest to 100 * x for a rational x = <<n, d>>, d > 0: one,
\* or the two neighbours when 100 * x is halfway between them.
NearestPercents(x) ==
  {k \in 0..200 : 2 * (k * x[2] - 100 * x[1]) <= x[2]
                  /\ 2 * (100 * x[1] - k * x[2]) <= x[2]}

\* C4: confidence = clamp(round(raw * 100), 0, 100), raw being
\* 0.6 * spotifyScore + 0.4 * appleScore when both are nonzero, the nonzero
\* score when one is, 0 when none is; 0.9 and 0.8 give 86.  The formula is
\* taken over the rationals and round is a nearest integer: the claim names
\* no rule for a raw * 100 halfway between two integers.
C4_Aggregator ==
  (fnIn.fn = "confidence" /\ fnOut # <<>>) =>
    \A s \in GridRatios, a \in GridRatios :
      (fnIn.spotifyScore = FromRatio(s[1], s[2])
         /\ fnIn.appleScore = FromRatio(a[1], a[2])) =>
        /\ \E pct \in NearestPercents(ExactRaw(s, a)) :
             fnOut[1] = IF pct > 100 THEN 100 ELSE IF pct < 0 THEN 0 ELSE pct
        /\ (s = <<9, 10>> /\ a = <<8, 10>>) => fnOut[1] = 86

\* The aggregator applied to the scores 0.9 and 0.8.
C4_Witness ==
  /\ fnIn.fn = "confidence"
  /\ fnOut # <<>>
  /\ fnIn.spotifyScore = FromRatio(9, 10)
  /\ fnIn.appleScore = FromRatio(8, 10)
  /\ fnOut = <<86>>

\* The label the thresholds give, the lowest tier being one of lowest.
LabelOf(c, lowest) ==
  IF c >= 90 THEN {"exact"}
  ELSE IF c >= 75 THEN {"high"} ELSE IF c >= 50 THEN {"medium"} ELSE lowest

\* C5: the matchType of a 200 response follows from the confidence alone:
\* >= 90 exact, 75..89 high, 50..74 medium, below 50 the lowest tier
\* (low or very_low); and each of exact, high, medium, low, very_low is the
\* label of some confidence.
C5_Claim ==
  (Answered /\ variant \in {"v1", "v2"}) =>
    /\ response.matchType \in LabelOf(response.confidence, {"low", "very_low"})
    /\ \A l \in {"exact", "high", "medium", "low", "very_low"} :
         \E c \in 0..100 : MatchType(c) = l

\* C5, amended: the same thresholds with low as the lowest tier; each of
\* exact, high, medium, low is the label of some confidence and very_low is
\* the label of none.
C5_Labels ==
  (Answered /\ variant \in {"v1", "v2"}) =>
    /\ response.matchType \in LabelOf(response.confidence, {"low"})
    /\ \A l \in {"exact", "high", "medium", "low"} :
         \E c \in 0..100 : MatchType(c) = l
    /\ \A c \in 0..100 : MatchType(c) # "very_low"

\* A 200 response of the lowest tier.
C5_Witness ==
  /\ Answered
  /\ variant \in {"v1", "v2"}
  /\ response.confidence < 50
  /\ response.matchType = "low"

\* C6: in a 200 response each catalog's URL is its search-page URL of the
\* cleaned query when the confidence is below 74 or the catalog gave no
\* direct URL; it is the direct link only when the confidence is at least 74
\* and the catalog has a selected candidate; it is never null.
C6_Claim ==
  Answered =>
    /\ (ConfidenceFor("spotify", response) < 74
          \/ DirectUrlOf("spotify", sp) = NullUrl)
         => response.spotifyUrl = SpotifySearchUrl(response.cleanedQuery)
    /\ \/ response.spotifyUrl = SpotifySearchUrl(response.cleanedQuery)
       \/ /\ ConfidenceFor("spotify", response) >= 74
          /\ DirectUrlOf("spotify", sp) # NullUrl
          /\ response.spotifyUrl = DirectUrlOf("spotify", sp)
    /\ (ConfidenceFor("apple", response) < 74
          \/ DirectUrlOf("apple", ap) = NullUrl)
         => AppleUrlOf(response) = AppleSearchUrl(response.cleanedQuery)
    /\ \/ AppleUrlOf(response) = AppleSearchUrl(response.cleanedQuery)
       \/ /\ ConfidenceFor("apple", response) >= 74
          /\ DirectUrlOf("apple", ap) # NullUrl
          /\ AppleUrlOf(response) = DirectUrlOf("apple", ap)
    /\ response.spotifyUrl # NullUrl
    /\ AppleUrlOf(response) # NullUrl

\* What a branch settles to depends on its own replies only.
OwnOutcome(b) ==
  /\ (Settled(b) /\ b.seen = {"items"}) => (b.st = "fulfilled" /\ ~b.value.isNull)
  /\ (Settled(b) /\ b.seen = {"empty"}) => b.st = "fulfilled"

\* C7: the metadata fetch is the first call and has returned before a search
\* is issued; both searches are started before the handler awaits either;
\* the 200 response is sent after both have settled; and what a branch
\* settles to follows from its own replies, whatever the other branch does.
C7_Claim ==
  /\ calls # <<>> => calls[1] = "meta"
  /\ pc = "awaitMeta" => calls = <<"meta">>
  /\ pc \in {"join", "awaitSpotify", "awaitApple"} =>
       (sp.st # "idle" /\ ap.st # "idle")
  /\ Answered => (Settled(sp) /\ Settled(ap))
  /\ OwnOutcome(sp)
  /\ OwnOutcome(ap)

\* C8: a catalog whose search returned zero results resolves, without
\* throwing, to a result read as url null and score 0, and the request is
\* still answered 200.
C8_Claim ==
  /\ ZeroResults(sp) =>
       /\ sp.st = "fulfilled"
       /\ IF variant = "p1" THEN sp.value = NoMatchP1
          ELSE BranchUrl("spotify", sp) = NullUrl /\ BranchScore(sp) = Zero
  /\ ZeroResults(ap) =>
       /\ ap.st = "fulfilled"
       /\ IF variant = "p1" THEN ap.value = NoMatchP1
          ELSE BranchUrl("apple", ap) = NullUrl /\ BranchScore(ap) = Zero
  /\ (pc = "done" /\ (ZeroResults(sp) \/ ZeroResults(ap))) =>
       response.status = 200

\* The first position of seq sc holding its greatest score.
FirstMax(sc) ==
  CHOOSE k \in DOMAIN sc :
    /\ \A j \in DOMAIN sc : ~FLess(sc[k], sc[j])
    /\ \A j \in 1..(k - 1) : FLess(sc[j], sc[k])

\* C11: for a non-empty list of candidates the selector returns the
\* candidate of greatest penalised score, the first of them among equals,
\* with that score floored at 0; the selected candidate is never null, also
\* when no score is above 0.
C11_Claim ==
  (fnIn.fn = "select" /\ fnOut # <<>> /\ fnIn.items # <<>>) =>
    LET sc == fnOut[1].scores
        out == fnOut[1].selected
    IN  /\ ~out.isNull
        /\ out.track # NoTrack
        /\ out.track = fnIn.items[FirstMax(sc)]
        /\ out.score = IF FLess(sc[FirstMax(sc)], Zero) THEN Zero
                       ELSE sc[FirstMax(sc)]

\* "<artist names joined by space> <display name>" of a candidate.
CombinedOf(service, item) ==
  IF service = "spotify" THEN Join(item.artists, <<" ">>) \o <<" ">> \o item.name
  ELSE item.artistName \o <<" ">> \o item.trackName

\* Whether lowercased string s contains "remix" or "mix".
HasMix(s) ==
  Includes(ToLowerCase(s), <<"r","e","m","i","x">>)
    \/ Includes(ToLowerCase(s), <<"m","i","x">>)

HasLive(s) == Includes(ToLowerCase(s), <<"l","i","v","e">>)

\* Jaccard similarity minus 0.1 for a "live" mismatch and minus 0.1 for a
\* "remix"/"mix" mismatch, not floored.
PenalisedJaccard(c, q) ==
  FSub(FSub(Jaccard(TokenSet(c, <<>>), TokenSet(q, <<>>)),
            IF HasLive(c) # HasLive(q) THEN FromRatio(1, 10) ELSE Zero),
       IF HasMix(c) # HasMix(q) THEN FromRatio(1, 10) ELSE Zero)

\* C12: in every selector the score a candidate is selected by is the
\* Jaccard similarity of its combined string and the query, minus 0.1 when
\* exactly one of them contains "live", minus a further 0.1 when they
\* disagree on containing "remix" or "mix"; it is not floored, only the
\* selected score is (at 0).
C12_Claim ==
  (fnIn.fn = "select" /\ fnOut # <<>>) =>
    /\ \A i \in DOMAIN fnIn.items :
         fnOut[1].scores[i]
           = PenalisedJaccard(CombinedOf(fnIn.service, fnIn.items[i]),
                              fnIn.query)
    /\ ~FLess(fnOut[1].selected.score, Zero)

\* Whether a response carries the direct link of Spotify, of Apple.
HasSpotifyLink(r) == r.spotifyUrl = SpotifyTrackUrl(LinkTrack)

HasAppleLink(r) == r.appleMusicUrl = Url("", LinkItem.trackViewUrl)

\* Response lo is not above response hi: in confidence, and in the direct
\* links it carries.
NotAbove(lo, hi) ==
  /\ lo.confidence <= hi.confidence
  /\ HasSpotifyLink(lo) => HasSpotifyLink(hi)
  /\ HasAppleLink(lo) => HasAppleLink(hi)

\* C13: the confidence never decreases when one catalog's score increases
\* and the other's stays; in particular a catalog finding a match, however
\* weak, never lowers the confidence nor removes a direct link that the
\* response has when that catalog finds nothing.
C13_Claim ==
  (fnIn.fn = "respond" /\ fnOut # <<>>) =>
    LET s == fnIn.spotifyScore
        a == fnIn.appleScore
    IN  /\ \A a0 \in ScoreGrid :
             ~FLess(a, a0) =>
               RespondTo(variant, s, a0).confidence <= fnOut[1].confidence
        /\ \A s0 \in ScoreGrid :
             ~FLess(s, s0) =>
               RespondTo(variant, s0, a).confidence <= fnOut[1].confidence
        /\ NotAbove(RespondTo(variant, s, Zero), fnOut[1])
        /\ NotAbove(RespondTo(variant, Zero, a), fnOut[1])

\* C13, amended: the confidence never decreases when one catalog's score
\* increases from a nonzero value, or increases while the other catalog's
\* score is 0, or increases from 0 to at least the other catalog's score;
\* under the same conditions no direct link of the response is lost.  (A
\* match weaker than the other catalog's lowers the confidence relative to
\* that catalog finding nothing.)
C13_Monotone ==
  (fnIn.fn = "respond" /\ fnOut # <<>>) =>
    LET s == fnIn.spotifyScore
        a == fnIn.appleScore
    IN  /\ \A a0 \in ScoreGrid :
             (~FLess(a, a0) /\ (Truthy(a0) \/ ~Truthy(s) \/ ~FLess(a, s))) =>
               NotAbove(RespondTo(variant, s, a0), fnOut[1])
        /\ \A s0 \in ScoreGrid :
             (~FLess(s, s0) /\ (Truthy(s0) \/ ~Truthy(a) \/ ~FLess(s, a))) =>
               NotAbove(RespondTo(variant, s0, a), fnOut[1])

\* Apple's match is at least as good as Spotify's and the Spotify link that
\* the response has without it is kept.
C13_Witness ==
  /\ fnIn.fn = "respond"
  /\ fnOut # <<>>
  /\ Truthy(fnIn.spotifyScore)
  /\ FLess(fnIn.spotifyScore, fnIn.appleScore)
  /\ HasSpotifyLink(RespondTo(variant, fnIn.spotifyScore, Zero))
  /\ HasSpotifyLink(fnOut[1])
  /\ RespondTo(variant, fnIn.spotifyScore, Zero).confidence < fnOut[1].confidence


=============================================================================
